---- MODULE Spec2Model ----
(***************************************************************************)
(* txt2abs: converts an octal text listing of PDP-11 words into a binary   *)
(* file in absolute-loader format (src/txt2abs.cpp).                       *)
(*                                                                         *)
(* The model is the main loop of txt2abs.cpp: one action per kind of input *)
(* line, in the order in which main() tests them, and one action for the   *)
(* end of the input.  A line is given by its classification (what the      *)
(* strcmp / sscanf tests of main() make of it) and its numeric operands.   *)
(***************************************************************************)
EXTENDS Integers, Sequences, FiniteSets, TLC

(***************************************************************************)
(* Program constants.                                                      *)
(***************************************************************************)
ABS_SIG   == 1
HDR_LEN   == 6
CKSUM_LEN == 1
NBLK      == 65536
N_IFDEFS  == 32
U4_BITS   == 32
MAXADDR   == 65535
MAXBYTE   == 255

ABS_BLK  == "ABS_BLK"
ABS_HALT == "ABS_HALT"

(***************************************************************************)
(* Bounds of the model and the inputs that are enumerated.                 *)
(***************************************************************************)
MaxLines == 3

Syms      == {"FOO", "BAR"}
InitDefs  == {<< >>, <<"FOO">>}
OrgVals   == {0, 1, 512, 65534, 65536}
ChkVals   == {0, 2, 512, 65536}
ByteVals  == {65, 255, 256}
WordLines == {<<5349>>, <<65535, 1>>, <<1, 5349, 65535>>, <<65536, 0>>}
FillLine  == <<0, 0, 0>>
FillLens  == {(NBLK \div 6) - k : k \in 0 .. 2}
MaxNest   == 33

(***************************************************************************)
(* The u4_t bit masks lvl, inside_if and ignore_input are kept as the sets *)
(* of the positions (0 .. 31) of their 1 bits: 0 is {}, 1 is {0}, and a    *)
(* left shift drops the bit that leaves position 31.                       *)
(***************************************************************************)
Bits == 0 .. (U4_BITS - 1)

BitAnd(a, b) == a \cap b

BitOr(a, b) == a \cup b

BitXor(a, b) == (a \ b) \cup (b \ a)

BitNot(a) == Bits \ a

Shl1(a) == {i + 1 : i \in {j \in a : j + 1 < U4_BITS}}

Shr1(a) == {i - 1 : i \in {j \in a : j >= 1}}

(***************************************************************************)
(* The block buffer blk.data[0 .. sp-1].  The bytes are kept run-length    *)
(* encoded: a sequence of runs [b |-> byte, n |-> count], adjacent runs    *)
(* holding different bytes, so that equal byte strings have equal          *)
(* encodings.  Expand gives the plain byte string.                         *)
(***************************************************************************)
AppendByte(d, b) ==
    IF d # << >> /\ d[Len(d)].b = b
    THEN [d EXCEPT ![Len(d)].n = @ + 1]
    ELSE Append(d, [b |-> b, n |-> 1])

RECURSIVE DataLen(_)
DataLen(d) == IF d = << >> THEN 0 ELSE d[Len(d)].n + DataLen(SubSeq(d, 1, Len(d) - 1))

RECURSIVE ByteSum(_)
ByteSum(d) ==
    IF d = << >> THEN 0
    ELSE d[Len(d)].b * d[Len(d)].n + ByteSum(SubSeq(d, 1, Len(d) - 1))

RECURSIVE Expand(_)
Expand(d) ==
    IF d = << >> THEN << >>
    ELSE Expand(SubSeq(d, 1, Len(d) - 1)) \o [i \in 1 .. d[Len(d)].n |-> d[Len(d)].b]

\* *sp++ = b, the value truncated to u1_t
StoreByte(d, b) == AppendByte(d, b % 256)

\* write_le(sp, w)
write_le_hilo(d, w) == StoreByte(StoreByte(d, (w \div 256) % 256), w % 256)

write_le(d, w) == StoreByte(StoreByte(d, w % 256), (w \div 256) % 256)

RECURSIVE WriteWords(_, _)
WriteWords(d, ws) ==
    IF ws = << >> THEN d ELSE WriteWords(write_le(d, Head(ws)), Tail(ws))

VARIABLES
    nlines,        \* number of lines of the input file frp
    at,            \* position of main(): "loop" reading lines, "exit" after fclose
    lnum, errs, rm,
    nrm,           \* number of times error() ran the "rm outfile" command
    have_blk, data, org, pc,
    out,           \* the blocks written to fwp, in order
    ifdefs,        \* ifdefs[0 .. n_ifdefs-1]
    lvl, inside_if, ignore_input,
    frames         \* history of the input read so far: one frame for each
                   \* #if / #ifdef line not yet closed by an #endif, with its
                   \* suppression flag (flipped by #else) and the values of
                   \* lvl, inside_if and ignore_input before the line.  The
                   \* program keeps no such stack and never reads it.

vars == <<nlines, at, lnum, errs, rm, nrm, have_blk, data, org, pc, out, ifdefs,
          lvl, inside_if, ignore_input, frames>>

condVars == <<lvl, inside_if, ignore_input, frames>>
blkVars  == <<have_blk, data, org, pc, out>>
errVars  == <<errs, rm, nrm>>

(***************************************************************************)
(* error(): count the error and remove the output file the first time.     *)
(***************************************************************************)
error_rmEveryTime(e) ==
    [errs |-> e.errs + 1,
     rm   |-> TRUE,
     nrm  |-> e.nrm + 1]

error(e) ==
    [errs |-> e.errs + 1,
     rm   |-> TRUE,
     nrm  |-> IF e.rm THEN e.nrm ELSE e.nrm + 1]

ErrorIf(c, e) == IF c THEN error(e) ELSE e

ErrState == [errs |-> errs, rm |-> rm, nrm |-> nrm]

SetErr(e) == errs' = e.errs /\ rm' = e.rm /\ nrm' = e.nrm

(***************************************************************************)
(* write_abs(type) on the block state b = [have_blk, data, org, pc, out].  *)
(***************************************************************************)
BlkState == [have_blk |-> have_blk, data |-> data, org |-> org, pc |-> pc, out |-> out]

SetBlk(b) ==
    /\ have_blk' = b.have_blk
    /\ data' = b.data
    /\ org' = b.org
    /\ pc' = b.pc
    /\ out' = b.out

\* if (type == ABS_BLK) { if (!have_blk) return; }
NoBlk_never(type, b) == FALSE

NoBlk(type, b) == type = ABS_BLK /\ ~b.have_blk

\* if (type == ABS_HALT) org = 1;
BlkOrg_keep(type, b) == b.org

BlkOrg(type, b) == IF type = ABS_HALT THEN 1 ELSE b.org

\* cksum = (0x100 - ((ABS_SIG + lenL + lenH + addrL + addrH + data[0..len-1]) & 0xff)) & 0xff
Cksum_noAddrH(lenL, lenH, addrL, addrH, d) ==
    (256 - ((ABS_SIG + lenL + lenH + addrL + ByteSum(d)) % 256)) % 256

Cksum(lenL, lenH, addrL, addrH, d) ==
    (256 - ((ABS_SIG + lenL + lenH + addrL + addrH + ByteSum(d)) % 256)) % 256

\* org = pc
NextOrg_keep(b) == b.org

NextOrg(b) == b.pc

write_abs(type, b) ==
    IF NoBlk(type, b) THEN b
    ELSE
      LET o     == BlkOrg(type, b)
          len   == DataLen(b.data)
          tlen  == len + HDR_LEN + CKSUM_LEN
          lenL  == (tlen - CKSUM_LEN) % 256
          lenH  == ((tlen - CKSUM_LEN) \div 256) % 256
          addrL == o % 256
          addrH == (o \div 256) % 256
          rec   == [type  |-> type,
                    sigL  |-> ABS_SIG % 256, sigH  |-> (ABS_SIG \div 256) % 256,
                    lenL  |-> lenL,          lenH  |-> lenH,
                    addrL |-> addrL,         addrH |-> addrH,
                    data  |-> b.data,
                    cksum |-> Cksum(lenL, lenH, addrL, addrH, b.data),
                    tlen  |-> tlen]
      IN  [have_blk |-> FALSE,
           data     |-> << >>,
           org      |-> NextOrg(b),
           pc       |-> b.pc,
           out      |-> Append(b.out, rec)]

Start(lens) ==
    /\ nlines \in lens
    /\ at = "loop"
    /\ lnum = 0 /\ errs = 0 /\ rm = FALSE /\ nrm = 0
    /\ have_blk = FALSE /\ data = << >> /\ org = 0 /\ pc = 0
    /\ out = << >>
    /\ ifdefs \in InitDefs
    /\ lvl = {0} /\ inside_if = {} /\ ignore_input = {}
    /\ frames = << >>

Init == Start(0 .. MaxLines)

(***************************************************************************)
(* The main loop: one action per kind of line, tested in the order of      *)
(* main().  Every action reads one line (lnum++).                          *)
(*                                                                         *)
(* pc and org are u4_t.  The operands read here are below 2^17 and the     *)
(* inputs are short, so both stay far below 2^32, where unsigned and       *)
(* integer addition agree.  Appends are enabled while the bytes and the    *)
(* checksum byte fit in blk.data (Fits): beyond that the program writes    *)
(* outside the buffer.                                                     *)
(***************************************************************************)
ReadLine ==
    /\ at = "loop" /\ lnum < nlines
    /\ at' = at /\ nlines' = nlines
    /\ lnum' = lnum + 1

\* room in blk.data for k more bytes and the checksum byte written at flush
Fits(k) == DataLen(data) + k + CKSUM_LEN <= NBLK

\* an empty line or a // comment line
BlankLine ==
    /\ ReadLine
    /\ UNCHANGED <<errVars, blkVars, ifdefs, condVars>>

\* if (!(inside_if & lvl))
NotInsideIf_never == FALSE

NotInsideIf == BitAnd(inside_if, lvl) = {}

\* #else
ElseLine ==
    /\ ReadLine
    /\ IF NotInsideIf
       THEN SetErr(error(ErrState)) /\ ignore_input' = ignore_input
       ELSE ignore_input' = BitXor(ignore_input, lvl) /\ UNCHANGED errVars
    /\ frames' = IF frames = << >> THEN frames
                 ELSE [frames EXCEPT ![Len(frames)].sup = ~@]
    /\ UNCHANGED <<blkVars, ifdefs, lvl, inside_if>>

\* #endif
EndifLine ==
    /\ ReadLine
    /\ inside_if' = BitAnd(inside_if, BitNot(lvl))
    /\ ignore_input' = BitAnd(ignore_input, BitNot(lvl))
    /\ lvl' = Shr1(lvl)
    /\ SetErr(ErrorIf(Shr1(lvl) = {}, ErrState))
    /\ frames' = IF frames = << >> THEN frames
                 ELSE SubSeq(frames, 1, Len(frames) - 1)
    /\ UNCHANGED <<blkVars, ifdefs>>

\* the frame pushed on frames by an opening line whose branch is suppressed iff sup
Frame(sup) ==
    [sup |-> sup, lvl |-> lvl, inside_if |-> inside_if, ignore_input |-> ignore_input]

\* #if 1
If1Line ==
    /\ ReadLine
    /\ lvl' = Shl1(lvl)
    /\ inside_if' = BitOr(inside_if, Shl1(lvl))
    /\ ignore_input' = BitAnd(ignore_input, BitNot(Shl1(lvl)))
    /\ frames' = Append(frames, Frame(FALSE))
    /\ UNCHANGED <<errVars, blkVars, ifdefs>>

\* #if 0
If0Line ==
    /\ ReadLine
    /\ lvl' = Shl1(lvl)
    /\ inside_if' = BitOr(inside_if, Shl1(lvl))
    /\ ignore_input' = BitOr(ignore_input, Shl1(lvl))
    /\ frames' = Append(frames, Frame(TRUE))
    /\ UNCHANGED <<errVars, blkVars, ifdefs>>

\* the search of ifdefs[0 .. n_ifdefs-1] for def_s
IsDefined(s) == \E i \in 1 .. Len(ifdefs) : ifdefs[i] = s

\* #ifdef s
IfdefLine(s) ==
    /\ ReadLine
    /\ lvl' = Shl1(lvl)
    /\ inside_if' = BitOr(inside_if, Shl1(lvl))
    /\ ignore_input' = IF ~IsDefined(s)
                       THEN BitOr(ignore_input, Shl1(lvl))
                       ELSE BitAnd(ignore_input, BitNot(Shl1(lvl)))
    /\ frames' = Append(frames, Frame(~IsDefined(s)))
    /\ UNCHANGED <<errVars, blkVars, ifdefs>>

\* any other line while ignore_input is non-zero
SkippedLine ==
    /\ ReadLine
    /\ ignore_input # {}
    /\ UNCHANGED <<errVars, blkVars, ifdefs, condVars>>

\* #define s
DefineLine(s) ==
    /\ ReadLine
    /\ ignore_input = {}
    /\ Len(ifdefs) < N_IFDEFS
    /\ ifdefs' = Append(ifdefs, s)
    /\ UNCHANGED <<errVars, blkVars, condVars>>

\* #error ...
ErrorLine ==
    /\ ReadLine
    /\ ignore_input = {}
    /\ SetErr(error(ErrState))
    /\ UNCHANGED <<blkVars, ifdefs, condVars>>

\* #warning ...
WarningLine ==
    /\ ReadLine
    /\ ignore_input = {}
    /\ UNCHANGED <<errVars, blkVars, ifdefs, condVars>>

\* = norg
OrgLine(norg) ==
    /\ ReadLine
    /\ ignore_input = {}
    /\ SetBlk([write_abs(ABS_BLK, BlkState) EXCEPT !.pc = norg, !.org = norg])
    /\ SetErr(ErrorIf(norg > MAXADDR, ErrState))
    /\ UNCHANGED <<ifdefs, condVars>>

\* :: chk
Chk2Line(chk) ==
    /\ ReadLine
    /\ ignore_input = {}
    /\ SetErr(ErrorIf(pc # chk, ErrorIf(chk > MAXADDR, ErrState)))
    /\ SetBlk(write_abs(ABS_BLK, BlkState))
    /\ UNCHANGED <<ifdefs, condVars>>

\* int pcm2 = pc - 2, compared as unsigned: for pc < 2 it is 2^32 - 2 + pc,
\* different from every operand read here, as is the negative p - 2 below.
Pcm2_same(p) == p

Pcm2(p) == p - 2

\* : chk
Chk1Line(chk) ==
    /\ ReadLine
    /\ ignore_input = {}
    /\ LET pcm2 == Pcm2(pc)
       IN  SetErr(ErrorIf(pcm2 # chk, ErrorIf(chk > MAXADDR, ErrState)))
    /\ SetBlk(write_abs(ABS_BLK, BlkState))
    /\ UNCHANGED <<ifdefs, condVars>>

\* b val
ByteLine(b) ==
    /\ ReadLine
    /\ ignore_input = {}
    /\ Fits(1)
    /\ SetErr(ErrorIf(b > MAXBYTE, ErrState))
    /\ data' = StoreByte(data, b)
    /\ pc' = pc + 1
    /\ have_blk' = TRUE
    /\ UNCHANGED <<org, out, ifdefs, condVars>>

\* if (pc & 1)
OddPc_never(p) == FALSE

OddPc(p) == p % 2 = 1

\* one to three octal words
WordLine(ws) ==
    /\ ReadLine
    /\ ignore_input = {}
    /\ Fits(2 * Len(ws))
    /\ LET n  == Len(ws)
           e0 == ErrorIf(ws[1] > MAXADDR, ErrState)
           e1 == ErrorIf(n >= 2 /\ ws[2] > MAXADDR, e0)
           e2 == ErrorIf(n >= 3 /\ ws[3] > MAXADDR, e1)
       IN  SetErr(ErrorIf(OddPc(pc), e2))
    /\ data' = WriteWords(data, ws)
    /\ pc' = pc + 2 * Len(ws)
    /\ have_blk' = TRUE
    /\ UNCHANGED <<org, out, ifdefs, condVars>>

\* a line that none of the patterns matches
SyntaxErrorLine ==
    /\ ReadLine
    /\ ignore_input = {}
    /\ SetErr(error(ErrState))
    /\ UNCHANGED <<blkVars, ifdefs, condVars>>

\* fgets returns NULL: flush, write the halt block, close
EndOfInput ==
    /\ at = "loop" /\ lnum = nlines
    /\ at' = "exit"
    /\ SetBlk(write_abs(ABS_HALT, write_abs(ABS_BLK, BlkState)))
    /\ UNCHANGED <<nlines, lnum, errVars, ifdefs, condVars>>

Next ==
    \/ BlankLine
    \/ ElseLine
    \/ EndifLine
    \/ If1Line
    \/ If0Line
    \/ \E s \in Syms : IfdefLine(s)
    \/ SkippedLine
    \/ \E s \in Syms : DefineLine(s)
    \/ ErrorLine
    \/ WarningLine
    \/ \E n \in OrgVals : OrgLine(n)
    \/ \E n \in ChkVals : Chk2Line(n)
    \/ \E n \in ChkVals : Chk1Line(n)
    \/ \E b \in ByteVals : ByteLine(b)
    \/ \E ws \in WordLines : WordLine(ws)
    \/ SyntaxErrorLine
    \/ EndOfInput

Spec == Init /\ [][Next]_vars

(***************************************************************************)
(* Long inputs of word lines only, which fill the block buffer nearly to   *)
(* its capacity before the end of the input.                               *)
(***************************************************************************)
InitFill == Start(FillLens)

NextFill ==
    \/ WordLine(FillLine)
    \/ EndOfInput

SpecFill == InitFill /\ [][NextFill]_vars

(***************************************************************************)
(* Inputs of word lines that reach the end of blk.data.  Nothing tests sp  *)
(* against the end of the array: the line for which the buffer has no room *)
(* stores its bytes past blk.data, into the objects that follow blk in     *)
(* memory (have_blk, sp, org, pc among them).  That behaviour is undefined:*)
(* the bytes count as stored, have_blk takes either value, and the run is  *)
(* followed no further (at = "overrun").                                   *)
(***************************************************************************)
OverrunLens == {NBLK \div 6, (NBLK \div 6) + 1}

WordOverrun(ws) ==
    /\ at = "loop" /\ lnum < nlines
    /\ ignore_input = {}
    /\ ~Fits(2 * Len(ws))
    /\ at' = "overrun" /\ nlines' = nlines
    /\ lnum' = lnum + 1
    /\ LET n  == Len(ws)
           e0 == ErrorIf(ws[1] > MAXADDR, ErrState)
           e1 == ErrorIf(n >= 2 /\ ws[2] > MAXADDR, e0)
           e2 == ErrorIf(n >= 3 /\ ws[3] > MAXADDR, e1)
       IN  SetErr(ErrorIf(OddPc(pc), e2))
    /\ data' = WriteWords(data, ws)
    /\ pc' = pc + 2 * Len(ws)
    /\ have_blk' \in BOOLEAN
    /\ UNCHANGED <<org, out, ifdefs, condVars>>

InitOverrun == Start(OverrunLens)

NextOverrun ==
    \/ WordLine(FillLine)
    \/ WordOverrun(FillLine)
    \/ EndOfInput

SpecOverrun == InitOverrun /\ [][NextOverrun]_vars

(***************************************************************************)
(* Well-nested conditional lines only: an outermost #if 0 or #ifdef, #if 1 *)
(* lines nested to any depth up to MaxNest, an #if 0 as the 32nd frame,    *)
(* each #endif closing an open frame, 2 * MaxNest lines.                   *)
(***************************************************************************)
OpenIf1 == Len(frames) < MaxNest /\ If1Line

OpenIf0 == frames = << >> /\ If0Line

\* an #if 0 that opens the first frame for which the masks have no bit left
OpenIf0Deep == Len(frames) = U4_BITS - 1 /\ If0Line

OpenIfdef(s) == frames = << >> /\ IfdefLine(s)

CloseEndif == frames # << >> /\ EndifLine

InitNest == Start({2 * MaxNest})

NextNest ==
    \/ OpenIf1
    \/ OpenIf0
    \/ OpenIf0Deep
    \/ \E s \in Syms : OpenIfdef(s)
    \/ CloseEndif

SpecNest == InitNest /\ [][NextNest]_vars

TypeOK ==
    /\ at \in {"loop", "exit", "overrun"}
    /\ nlines \in Nat /\ lnum \in 0 .. nlines /\ errs \in Nat /\ rm \in BOOLEAN /\ nrm \in Nat
    /\ have_blk \in BOOLEAN
    /\ org \in Nat /\ pc \in Nat
    /\ lvl \subseteq Bits /\ inside_if \subseteq Bits /\ ignore_input \subseteq Bits

(***************************************************************************)
(* Fields of a written block.                                              *)
(***************************************************************************)
LenField(r) == r.lenL + 256 * r.lenH

AddrField(r) == r.addrL + 256 * r.addrH

BlockSum(r) ==
    r.sigL + r.sigH + r.lenL + r.lenH + r.addrL + r.addrH + ByteSum(r.data) + r.cksum

LastBlock == out[Len(out)]

\* the bytes of the words of a line, low byte first, in line order
RECURSIVE LineBytes(_)
LineBytes(ws) ==
    IF ws = << >> THEN << >>
    ELSE <<Head(ws) % 256, (Head(ws) \div 256) % 256>> \o LineBytes(Tail(ws))

DefineSet == {ifdefs[i] : i \in 1 .. Len(ifdefs)}

\* a line that is neither blank nor one of #else, #endif, #if 1, #if 0, #ifdef
OtherLine ==
    \/ SkippedLine
    \/ \E s \in Syms : DefineLine(s)
    \/ ErrorLine
    \/ WarningLine
    \/ \E n \in OrgVals : OrgLine(n)
    \/ \E n \in ChkVals : Chk2Line(n)
    \/ \E n \in ChkVals : Chk1Line(n)
    \/ \E b \in ByteVals : ByteLine(b)
    \/ \E ws \in WordLines : WordLine(ws)
    \/ SyntaxErrorLine

(***************************************************************************)
(* C1.  The blocks written end with exactly one halt block: while the      *)
(* input is being read every block written is a data block with at least   *)
(* one data byte; the end of the input appends the pending data, if any,   *)
(* as one data block and then the halt block, and nothing else; after it   *)
(* the last block is the only halt block.                                  *)
(***************************************************************************)
C1_DataBlocksThenHalt ==
    /\ \A i \in 1 .. Len(out) :
          IF at = "exit" /\ i = Len(out)
          THEN out[i].type = ABS_HALT
          ELSE out[i].type = ABS_BLK /\ DataLen(out[i].data) >= 1
    /\ at = "exit" => out # << >> /\ data = << >>

C1_EndFlushesThenHalts ==
    (at = "loop" /\ at' = "exit") =>
        IF data # << >>
        THEN /\ Len(out') = Len(out) + 2
             /\ SubSeq(out', 1, Len(out)) = out
             /\ out'[Len(out) + 1].type = ABS_BLK
             /\ out'[Len(out) + 1].data = data
             /\ out'[Len(out) + 2].type = ABS_HALT
        ELSE /\ Len(out') = Len(out) + 1
             /\ SubSeq(out', 1, Len(out)) = out
             /\ out'[Len(out) + 1].type = ABS_HALT

C1_EndsWithOneHalt == [] C1_DataBlocksThenHalt /\ [][C1_EndFlushesThenHalts]_vars

C1_Witness ==
    /\ at = "exit" /\ errs > 0 /\ Len(out) = 3
    /\ out[1].type = ABS_BLK /\ out[2].type = ABS_BLK /\ out[3].type = ABS_HALT

(***************************************************************************)
(* C2.  The bytes of every block written (signature, length, address,      *)
(* data, checksum) add up to 0 modulo 256.                                 *)
(***************************************************************************)
C2_ChecksumZero == \A i \in 1 .. Len(out) : BlockSum(out[i]) % 256 = 0

C2_Witness ==
    /\ at = "exit" /\ Len(out) >= 2
    /\ out[1].type = ABS_BLK /\ out[1].addrH # 0 /\ out[1].cksum # 0
    /\ DataLen(out[1].data) = 6

(***************************************************************************)
(* C3.  The length field of every block written equals the number of its   *)
(* data bytes plus 6.                                                      *)
(***************************************************************************)
C3_LengthField ==
    \A i \in 1 .. Len(out) : LenField(out[i]) = DataLen(out[i].data) + HDR_LEN

(***************************************************************************)
(* C4.  The halt block written at the end of the input has an odd address  *)
(* field, no data bytes and a length field of 6.                           *)
(***************************************************************************)
C4_HaltBlock ==
    /\ at = "exit" =>
          /\ out # << >>
          /\ LastBlock.type = ABS_HALT
    /\ \A i \in 1 .. Len(out) :
          out[i].type = ABS_HALT =>
              /\ AddrField(out[i]) % 2 = 1
              /\ DataLen(out[i].data) = 0
              /\ LenField(out[i]) = 6

C4_Witness ==
    /\ at = "exit" /\ Len(out) = 2
    /\ pc % 2 = 0 /\ pc > 512
    /\ DataLen(out[1].data) > 0
    /\ LastBlock.type = ABS_HALT

(***************************************************************************)
(* C5.  An unsuppressed line of one to three words, each in 0 .. 0177777,  *)
(* appends to the block buffer the low byte and then the high byte of      *)
(* each word, in line order, and adds 2 to pc for each word.               *)
(***************************************************************************)
C5_WordsLittleEndian ==
    [][\A ws \in WordLines :
          (WordLine(ws) /\ \A i \in 1 .. Len(ws) : ws[i] <= MAXADDR) =>
              /\ Expand(data') = Expand(data) \o LineBytes(ws)
              /\ pc' = pc + 2 * Len(ws)]_vars

C5_Witness ==
    /\ at = "loop"
    /\ Expand(data) = <<229, 20, 1, 0, 229, 20, 255, 255>>
    /\ org = 512 /\ pc = 520

(***************************************************************************)
(* C6.  #ifdef S opens a frame that is suppressed if and only if S is not  *)
(* in the define set when the line is read, whatever the enclosing frames. *)
(***************************************************************************)
C6_IfdefSuppressedIffUndefined ==
    [][\A s \in Syms :
          IfdefLine(s) =>
              (BitAnd(ignore_input', lvl') # {} <=> s \notin DefineSet)]_vars

(***************************************************************************)
(* C7.  #else met with an open frame leaves the depth and the flags of the *)
(* enclosing frames unchanged and flips the flag of the innermost frame:   *)
(* of the lines before and after it, exactly one side is processed when no *)
(* enclosing frame is suppressed, and neither when one is.                 *)
(***************************************************************************)
C7_ElseFlipsInnermost ==
    [][(ElseLine /\ frames # << >>) =>
          /\ lvl' = lvl
          /\ inside_if' = inside_if
          /\ BitAnd(ignore_input', BitNot(lvl)) = BitAnd(ignore_input, BitNot(lvl))
          /\ IF BitAnd(ignore_input, BitNot(lvl)) = {}
             THEN (ignore_input = {}) # (ignore_input' = {})
             ELSE ignore_input # {} /\ ignore_input' # {}]_vars

(***************************************************************************)
(* C8.  An #endif that closes an open frame restores lvl, inside_if and    *)
(* ignore_input to their values before the line that opened the frame, and *)
(* reports no error.                                                       *)
(***************************************************************************)
C8_EndifRestores ==
    [][(EndifLine /\ frames # << >>) =>
          /\ lvl' = frames[Len(frames)].lvl
          /\ inside_if' = frames[Len(frames)].inside_if
          /\ ignore_input' = frames[Len(frames)].ignore_input
          /\ errs' = errs]_vars

(***************************************************************************)
(* C9.  While an open frame is in its suppressed branch, a line that is    *)
(* not a conditional directive leaves pc, org, the block buffer, the       *)
(* define set, the error counter and the output unchanged.                 *)
(***************************************************************************)
C9_SuppressedLineHasNoEffect ==
    [][((\E i \in 1 .. Len(frames) : frames[i].sup) /\ OtherLine) =>
          UNCHANGED <<pc, org, data, have_blk, ifdefs, errs, out>>]_vars

(***************************************************************************)
(* C10.  An #endif with no open frame adds one to the error counter and    *)
(* leaves the conditional state as it is at depth 0 with no frame open, so *)
(* that an #if 0 read with no frame open suppresses the lines after it.    *)
(***************************************************************************)
C10_StrayEndifKeepsDepth0 ==
    [][/\ (EndifLine /\ frames = << >>) =>
             /\ errs' = errs + 1
             /\ lvl' = {0} /\ inside_if' = {} /\ ignore_input' = {}
       /\ (If0Line /\ frames = << >>) => ignore_input' # {}]_vars

(***************************************************************************)
(* C11.  An #else read with no frame open adds one to the error counter    *)
(* and changes nothing else but the line number: depth, flags, define set, *)
(* block buffer, pc, org and output are as if the line were absent.        *)
(***************************************************************************)
C11_StrayElseHasNoEffect ==
    [][(ElseLine /\ frames = << >>) =>
          /\ errs' = errs + 1
          /\ UNCHANGED <<lvl, inside_if, ignore_input, frames, ifdefs, blkVars>>]_vars

\* #if 1, #endif, #else: the #else is read at depth 0 after the frame was closed
C11_Witness ==
    /\ lnum = 3 /\ errs = 1 /\ nrm = 1
    /\ frames = << >> /\ lvl = {0} /\ inside_if = {} /\ ignore_input = {}
    /\ out = << >> /\ data = << >>

(***************************************************************************)
(* C12.  For an operand N in 0 .. 0177777, an unsuppressed :: N line       *)
(* reports an error if and only if pc differs from N, and an unsuppressed  *)
(* : N line if and only if pc - 2 differs from N; a check that matches     *)
(* leaves the error counter unchanged.                                     *)
(***************************************************************************)
C12_ConsistencyChecks ==
    [][\A n \in ChkVals :
          n <= MAXADDR =>
              /\ Chk2Line(n) => errs' = errs + (IF pc # n THEN 1 ELSE 0)
              /\ Chk1Line(n) => errs' = errs + (IF pc - 2 # n THEN 1 ELSE 0)]_vars

\* = 0, one word, : 0
C12_Witness ==
    /\ lnum = 3 /\ errs = 0 /\ pc = 2 /\ org = 2 /\ data = << >>
    /\ Len(out) = 1 /\ AddrField(out[1]) = 0 /\ DataLen(out[1].data) = 2

(***************************************************************************)
(* C13.  An unsuppressed word line whose values are all in range raises    *)
(* exactly one error when pc is odd at the start of the line and none when *)
(* pc is even; a run of an odd origin line followed by one such word line  *)
(* ends with the error counter at exactly 1.                               *)
(***************************************************************************)
InRange(ws) == \A i \in 1 .. Len(ws) : ws[i] <= MAXADDR

\* the finished run was  = N (N odd)  followed by one in-range word line
OddOrgThenWord ==
    /\ at = "exit" /\ nlines = 2 /\ Len(out) = 2
    /\ AddrField(out[1]) % 2 = 1
    /\ \E ws \in WordLines : InRange(ws) /\ Expand(out[1].data) = LineBytes(ws)

C13_ParityError ==
    /\ [](OddOrgThenWord => errs = 1)
    /\ [][\A ws \in WordLines :
              (InRange(ws) /\ WordLine(ws)) => errs' = errs + (pc % 2)]_vars

C13_Witness ==
    /\ OddOrgThenWord /\ errs = 1 /\ nrm = 1
    /\ AddrField(out[1]) = 1 /\ DataLen(out[1].data) = 2

(***************************************************************************)
(* C14.  In every reachable state pc is a non-negative address not greater *)
(* than 0177777.                                                           *)
(***************************************************************************)
C14_PcIn16Bits == pc \in 0 .. MAXADDR

(***************************************************************************)
(* C15.  An unsuppressed = N line with data pending writes the pending     *)
(* block first, with the origin under which its bytes were accumulated as  *)
(* its address field, and only then sets origin and pc to N; the bytes     *)
(* appended afterwards leave the origin alone and are written in a later   *)
(* block whose address field is that origin, N.                            *)
(***************************************************************************)
\* the step writes the pending bytes as one data block with address field a
FlushesPendingAt(a) ==
    /\ Len(out') >= Len(out) + 1
    /\ SubSeq(out', 1, Len(out)) = out
    /\ out'[Len(out) + 1].type = ABS_BLK
    /\ out'[Len(out) + 1].data = data
    /\ AddrField(out'[Len(out) + 1]) = a

C15_OriginFlushesFirst ==
    [][/\ \A n \in OrgVals :
             (OrgLine(n) /\ have_blk) =>
                 FlushesPendingAt(org) /\ org' = n /\ pc' = n /\ data' = << >>
       /\ (\E b \in ByteVals : ByteLine(b)) \/ (\E ws \in WordLines : WordLine(ws)) =>
             org' = org /\ out' = out
       /\ (have_blk /\ out' # out) => FlushesPendingAt(org)]_vars

(***************************************************************************)
(* C16.  An unsuppressed : N or :: N line never changes pc and flushes the *)
(* pending block whether the check passes or fails: after the line the     *)
(* accumulator is empty and the origin of the next block equals pc.        *)
(***************************************************************************)
C16_CheckFlushesKeepsPc ==
    [][\A n \in ChkVals :
          (Chk1Line(n) \/ Chk2Line(n)) =>
              /\ pc' = pc
              /\ data' = << >> /\ ~have_blk'
              /\ org' = pc
              /\ IF have_blk
                 THEN /\ Len(out') = Len(out) + 1
                      /\ SubSeq(out', 1, Len(out)) = out
                      /\ out'[Len(out')].type = ABS_BLK
                      /\ out'[Len(out')].data = data
                 ELSE out' = out]_vars

\* one word, then a check line that fails: the word is flushed all the same
C16_Witness ==
    /\ at = "loop" /\ lnum = 2 /\ errs = 1
    /\ pc = 2 /\ org = 2 /\ data = << >> /\ ~have_blk
    /\ Len(out) = 1 /\ AddrField(out[1]) = 0 /\ DataLen(out[1].data) = 2

(***************************************************************************)
(* C17.  After conditional lines in which every #else and #endif has an    *)
(* open frame, the bit masks agree with the stack of open frames: the next *)
(* non-conditional line is skipped (ignore_input is non-zero) if and only  *)
(* if some open frame is in its suppressed branch, the bits of             *)
(* ignore_input are bits of inside_if, and the bits of inside_if are       *)
(* exactly the bits 1 .. depth of the open frames.                         *)
(***************************************************************************)
SomeFrameSuppressed == \E i \in 1 .. Len(frames) : frames[i].sup

C17_BitsAgreeWithStack ==
    /\ (ignore_input # {}) <=> SomeFrameSuppressed
    /\ ignore_input \subseteq inside_if
    /\ inside_if = 1 .. Len(frames)

(***************************************************************************)
(* C18.  At every line boundary pc equals org plus the number of bytes in  *)
(* the accumulator.  Consequently the address field of each data block is  *)
(* the pc at which its first byte was appended, and unless an = line       *)
(* intervenes the next block starts at the address where the written block *)
(* ends: org changes only when a block is written or on an = line.         *)
(***************************************************************************)
IsOrgLine == \E n \in OrgVals : OrgLine(n)

C18_PcIsOrgPlusLength ==
    /\ [](pc = org + DataLen(data))
    /\ [][(have_blk /\ out' # out) =>
             /\ FlushesPendingAt(pc - DataLen(data))
             /\ ~IsOrgLine => org' = AddrField(out'[Len(out) + 1]) + DataLen(data)]_vars
    /\ [][org' # org => (out' # out \/ IsOrgLine)]_vars

(***************************************************************************)
(* C19.  The output file is removed exactly once in a run that reports an  *)
(* error, at the first error, and never in a run that reports none: the    *)
(* latch rm is set if and only if the error counter is greater than zero,  *)
(* a later error only increases the counter, and #warning and #define      *)
(* lines change neither the counter nor the latch.                         *)
(***************************************************************************)
C19_RemovedOnceIffError ==
    /\ []((rm <=> errs > 0) /\ nrm = (IF errs > 0 THEN 1 ELSE 0))
    /\ [][/\ errs' >= errs
          /\ (errs > 0 /\ errs' # errs) => (rm' /\ nrm' = nrm)]_vars
    /\ [][(WarningLine \/ \E s \in Syms : DefineLine(s)) => UNCHANGED errVars]_vars

\* a finished run of three lines that reported an error each
C19_Witness ==
    /\ at = "exit" /\ lnum = 3 /\ errs = 3 /\ rm /\ nrm = 1

(***************************************************************************)
(* C20.  The pending block never holds more than 65536 data bytes, and the *)
(* write pointer never goes past the end of the block buffer, the checksum *)
(* byte written at flush included.                                         *)
(***************************************************************************)
C20_BlockFitsBuffer ==
    /\ DataLen(data) <= NBLK
    /\ DataLen(data) + CKSUM_LEN <= NBLK
    /\ at # "overrun"

====
